---- MODULE Spec2Model ----
(***************************************************************************)
(* Temperature analysis back end (src/back.py) and its dashboard caller    *)
(* (src/app.py).                                                           *)
(*                                                                         *)
(* A DataFrame is a sequence of rows; a row is a record whose fields are   *)
(* the frame's columns plus idx, the row's index label.  A column that the *)
(* frame does not have is a field the rows do not have.                    *)
(*                                                                         *)
(* Numbers.  Temperatures are integers.  A derived float is a record       *)
(* [def, num, den]: def = FALSE is NaN, otherwise the value is the         *)
(* rational num/den (den > 0).  A standard deviation is carried by its     *)
(* square: the record of a *_std column holds the sample variance, and the *)
(* value it stands for is the square root of num/den.  Every comparison    *)
(* the code makes on mean +- 2*std is decided exactly on these rationals;  *)
(* floating-point rounding is not modelled.                                *)
(***************************************************************************)
EXTENDS Integers, Sequences, FiniteSets, TLC

(* ------------------------------ bounds --------------------------------- *)
MaxRows == 3
MaxCsvRows == 2
MaxOrchRows == 4
MaxWindow == 3
SpikeLen == 6
PoolSize == 2
MaxTime == 2

(* ------------------------- program constants --------------------------- *)
DefaultWindow == 30

CityOrder == <<"A", "B", "C">>
AllSeasons == {"winter", "spring", "summer", "autumn"}

(* ------------------------------ numbers -------------------------------- *)
NaN == [def |-> FALSE, num |-> 0, den |-> 1]
Rat(n, d) == [def |-> TRUE, num |-> n, den |-> d]

RECURSIVE SumSeq(_)
SumSeq(s) == IF s = <<>> THEN 0 ELSE Head(s) + SumSeq(Tail(s))

SumSq(s) == SumSeq([i \in DOMAIN s |-> s[i] * s[i]])

\* Series.mean(): NaN on no values.
Mean(s) == IF Len(s) = 0 THEN NaN ELSE Rat(SumSeq(s), Len(s))

\* Series.std(), ddof = 1: NaN on fewer than two values; carried as the
\* sample variance (n*Q - S^2) / (n*(n-1)).
SampleStd(s) ==
    LET n == Len(s)
    IN  IF n < 2 THEN NaN
        ELSE Rat(n * SumSq(s) - SumSeq(s) * SumSeq(s), n * (n - 1))

\* The aggregation a rolling window or a group is reduced by.
Aggregate(stat, s) == IF stat = "mean" THEN Mean(s) ELSE SampleStd(s)

\* (t - m)^2 compared with (2*std)^2, both scaled by m.den^2 * s.den > 0.
DevSq(t, m, s) == (t * m.den - m.num) * (t * m.den - m.num) * s.den
FourVar(m, s) == 4 * s.num * m.den * m.den

\* GtUpper with NaN read as 0.
GtUpper_NaNAsZero(t, m, s) ==
    /\ t * m.den - m.num > 0
    /\ DevSq(t, m, s) > FourVar(m, s)

\* GtUpper with >= for >.
GtUpper_Inclusive(t, m, s) ==
    /\ m.def /\ s.def
    /\ t * m.den - m.num >= 0
    /\ DevSq(t, m, s) >= FourVar(m, s)

\* t > m + 2*s.  A comparison with NaN is False.
GtUpper(t, m, s) ==
    /\ m.def /\ s.def
    /\ t * m.den - m.num > 0
    /\ DevSq(t, m, s) > FourVar(m, s)

\* t < m - 2*s.  A comparison with NaN is False.
LtLower(t, m, s) ==
    /\ m.def /\ s.def
    /\ t * m.den - m.num < 0
    /\ DevSq(t, m, s) > FourVar(m, s)

\* WithinLimits with < for <=.
WithinLimits_Strict(t, m, s) ==
    /\ m.def /\ s.def
    /\ DevSq(t, m, s) < FourVar(m, s)

\* m - 2*s <= t <= m + 2*s (a chained comparison).  With NaN it is False.
WithinLimits(t, m, s) ==
    /\ m.def /\ s.def
    /\ DevSq(t, m, s) <= FourVar(m, s)

(* ------------------------------ frames --------------------------------- *)
Month(ts) == ts \div 100

HasColumn(df, col) == \A i \in DOMAIN df : col \in DOMAIN df[i]

FilterCity(df, city) == SelectSeq(df, LAMBDA r : r.city = city)

Temperatures(df) == [i \in DOMAIN df |-> df[i].temperature]

CitySet(df) == {df[i].city : i \in DOMAIN df}

\* Series.unique(): the distinct values in order of first appearance.
Unique(df) ==
    LET first == {i \in DOMAIN df : \A j \in 1..(i - 1) : df[j].city # df[i].city}
        nth[k \in 1..Cardinality(first)] ==
            CHOOSE i \in first : Cardinality({j \in first : j < i}) = k - 1
    IN  [k \in 1..Cardinality(first) |-> df[nth[k]].city]

CityRank(c) == CHOOSE k \in DOMAIN CityOrder : CityOrder[k] = c

Ok(df) == [ok |-> TRUE, err |-> "", df |-> df]
Raise(e) == [ok |-> FALSE, err |-> e, df |-> <<>>]

(* ------------------------------ get_season ----------------------------- *)
get_season(month) ==
    IF month \in {3, 4, 5} THEN "spring"
    ELSE IF month \in {6, 7, 8} THEN "summer"
    ELSE IF month \in {9, 10, 11} THEN "autumn"
    ELSE "winter"

(* ------------------------------ load_data ------------------------------ *)
\* sort_values(["city", "timestamp"]) (stable), then reset_index(drop=True).
load_data(raw) ==
    LET n == Len(raw)
        Before(i, j) ==
            \/ CityRank(raw[i].city) < CityRank(raw[j].city)
            \/ /\ raw[i].city = raw[j].city
               /\ \/ raw[i].timestamp < raw[j].timestamp
                  \/ raw[i].timestamp = raw[j].timestamp /\ i < j
        at[k \in 1..n] ==
            CHOOSE i \in 1..n : Cardinality({j \in 1..n : Before(j, i)}) = k - 1
    IN  [k \in 1..n |-> [raw[at[k]] EXCEPT !.idx = k - 1]]

(* ---------------------------- roll_analysis ---------------------------- *)
\* groupby("city")["temperature"].rolling(window, min_periods=window).<stat>()
\* then reset_index(level=0, drop=True): a series keyed by the rows' own
\* index labels.
RollingSeries(df, window, stat) ==
    UNION { LET g == FilterCity(df, c)
            IN  { [idx |-> g[k].idx,
                   val |-> IF k < window THEN NaN
                           ELSE Aggregate(stat, Temperatures(SubSeq(g, k - window + 1, k)))]
                  : k \in DOMAIN g }
          : c \in CitySet(df) }

\* df[col] = series: alignment on the index label.
SeriesAt(series, label) == (CHOOSE p \in series : p.idx = label).val

\* roll_analysis without the groupby: one rolling window over the whole table.
roll_analysis_Ungrouped(df, window) ==
    LET rolling(i, stat) ==
            IF i < window THEN NaN
            ELSE Aggregate(stat, Temperatures(SubSeq(df, i - window + 1, i)))
    IN  [i \in DOMAIN df |->
           LET r == df[i]
               m == rolling(i, "mean")
               s == rolling(i, "std")
           IN  r @@ [roll_mean_30 |-> m,
                     roll_std_30 |-> s,
                     is_roll_anomaly |-> GtUpper(r.temperature, m, s)
                                         \/ LtLower(r.temperature, m, s)]]

roll_analysis(df, window) ==
    LET means == RollingSeries(df, window, "mean")
        stds == RollingSeries(df, window, "std")
    IN  [i \in DOMAIN df |->
           LET r == df[i]
               m == SeriesAt(means, r.idx)
               s == SeriesAt(stds, r.idx)
           IN  r @@ [roll_mean_30 |-> m,
                     roll_std_30 |-> s,
                     is_roll_anomaly |-> GtUpper(r.temperature, m, s)
                                         \/ LtLower(r.temperature, m, s)]]

(* -------------------------- seasonal_analysis -------------------------- *)
\* groupby(["city", "season"])["temperature"].agg(mean, std).reset_index()
season_stats(df) ==
    { LET g == SelectSeq(df, LAMBDA r : r.city = k[1] /\ r.season = k[2])
      IN  [city |-> k[1], season |-> k[2],
           season_mean |-> Mean(Temperatures(g)),
           season_std |-> SampleStd(Temperatures(g))]
      : k \in {<<df[i].city, df[i].season>> : i \in DOMAIN df} }

\* merge(season_stats, on=["city", "season"], how="left"): row order kept,
\* a fresh RangeIndex; then the anomaly column.
merge_season_stats(df) ==
    LET stats == season_stats(df)
    IN  [i \in DOMAIN df |->
           LET r == df[i]
               st == CHOOSE q \in stats : q.city = r.city /\ q.season = r.season
           IN  [r EXCEPT !.idx = i - 1]
               @@ [season_mean |-> st.season_mean,
                   season_std |-> st.season_std,
                   is_season_anomaly |->
                       GtUpper(r.temperature, st.season_mean, st.season_std)
                       \/ LtLower(r.temperature, st.season_mean, st.season_std)]]

\* seasonal_analysis that first sets season from the timestamp's month.
seasonal_analysis_Derives(df) ==
    Ok(merge_season_stats(
         [i \in DOMAIN df |->
            [season |-> get_season(Month(df[i].timestamp))] @@ df[i]]))

\* df.groupby(["city", "season"]) needs the season column.
seasonal_analysis(df) ==
    IF ~HasColumn(df, "season") THEN Raise("KeyError")
    ELSE Ok(merge_season_stats(df))

(* --------------------------- long_term_trend --------------------------- *)
\* np.polyfit(t, y, 1) with t = 0..n-1, evaluated at t = k: the least-squares
\* line, as the rational (a*k + b) over the common denominator
\* n*Sum(t^2) - Sum(t)^2.
TrendAt(y, k) ==
    LET n == Len(y)
        t == [i \in 1..n |-> i - 1]
        St == SumSeq(t)
        Stt == SumSq(t)
        Sy == SumSeq(y)
        Sty == SumSeq([i \in 1..n |-> t[i] * y[i]])
        D == n * Stt - St * St
    IN  Rat((n * Sty - St * Sy) * k + (Sy * Stt - St * Sty), D)

\* A city with a single observation has t = [0]: polyfit scales the columns
\* of its Vandermonde matrix by their norms, the norm of the t column is 0,
\* and the least-squares solver is handed a NaN.  What the solver does then
\* is the linear-algebra library's: it raises LinAlgError, or it returns
\* NaN coefficients.  lstsq names which.
Degenerate(df, city) == Len(FilterCity(df, city)) < 2

long_term_trend(df, lstsq) ==
    IF lstsq = "LinAlgError" /\ \E c \in CitySet(df) : Degenerate(df, c)
    THEN Raise("LinAlgError")
    ELSE Ok([i \in DOMAIN df |->
              LET r == df[i]
                  k == Cardinality({j \in 1..i : df[j].city = r.city})
              IN  r @@ [trend |-> IF Degenerate(df, r.city) THEN NaN
                                  ELSE TrendAt(Temperatures(FilterCity(df, r.city)), k - 1)]])

(* ----------------------------- analyze_city ---------------------------- *)
analyze_city(df, city, lstsq) ==
    LET city_df == FilterCity(df, city)
        rolled == roll_analysis(city_df, DefaultWindow)
        seasoned == seasonal_analysis(rolled)
    IN  IF ~seasoned.ok THEN seasoned
        ELSE long_term_trend(seasoned.df, lstsq)

(* ----------------------------- check_anomaly --------------------------- *)
\* check_anomaly that answers "anomaly" when it finds no row.
check_anomaly_NoRowIsAnomaly(city, current_temp, df, now_month) ==
    LET season == get_season(now_month)
        sel == SelectSeq(df, LAMBDA r : r.city = city /\ r.season = season)
    IN  [ok |-> TRUE, err |-> "",
         value |-> [city |-> city,
                    season |-> season,
                    temperature |-> current_temp,
                    is_anomaly |->
                        IF Len(sel) > 0
                           /\ WithinLimits(current_temp, sel[1].season_mean,
                                           sel[1].season_std)
                        THEN "normal" ELSE "anomaly"]]

\* now_month is the month of datetime.now().
check_anomaly(city, current_temp, df, now_month) ==
    LET season == get_season(now_month)
        sel == SelectSeq(df, LAMBDA r : r.city = city /\ r.season = season)
    IN  IF Len(sel) = 0 THEN [ok |-> FALSE, err |-> "IndexError", value |-> <<>>]
        ELSE LET stats == sel[1]
             IN  [ok |-> TRUE, err |-> "",
                  value |-> [city |-> city,
                             season |-> season,
                             temperature |-> current_temp,
                             is_anomaly |->
                                 IF WithinLimits(current_temp, stats.season_mean,
                                                 stats.season_std)
                                 THEN "normal" ELSE "anomaly"]]

(* ------------------------------- inputs -------------------------------- *)
Temps == {0, 1, 5}
CsvTemps == {0, 1}
LiveTemps == {-1, 0, 3, 4}
NowMonths == 1..12
LstsqOutcomes == {"LinAlgError", "nan"}

\* The day a reading of the given season was taken: day d of January or of
\* April.
DateIn(season, d) == IF season = "spring" THEN 400 + d ELSE 100 + d

\* A freshly read frame carries a RangeIndex.
RangeIndex(rows) == [i \in DOMAIN rows |-> rows[i] @@ [idx |-> i - 1]]

SeqsUpTo(S, n) == UNION {[1..k -> S] : k \in 1..n}

\* Tables of up to MaxRows readings of two cities, each dated in its season.
SmallTables ==
    { [i \in DOMAIN t |-> [idx |-> i - 1, city |-> t[i][1], temperature |-> t[i][2],
                           season |-> t[i][3], timestamp |-> DateIn(t[i][3], i)]]
      : t \in SeqsUpTo({"A", "B"} \X Temps \X {"winter", "spring"}, MaxRows) }

\* A winter of city A: SpikeLen - 2 readings of 0 and then two more, with at
\* most one reading of city B somewhere among them.
SpikeTables ==
    LET a(x, y) == [i \in 1..SpikeLen |->
                      [city |-> "A", season |-> "winter", timestamp |-> 100 + i,
                       temperature |-> IF i = SpikeLen - 1 THEN x
                                       ELSE IF i = SpikeLen THEN y ELSE 0]]
        b(z) == [city |-> "B", season |-> "winter", timestamp |-> 120, temperature |-> z]
        ins(s, p, r) == SubSeq(s, 1, p - 1) \o <<r>> \o SubSeq(s, p, Len(s))
    IN  { RangeIndex(a(x, y)) : x \in Temps, y \in Temps }
        \cup { RangeIndex(ins(a(xy[1], xy[2]), p, b(xy[3])))
               : xy \in Temps \X Temps \X Temps, p \in 1..(SpikeLen + 1) }

\* What read_csv hands to load_data: up to MaxCsvRows readings in file order,
\* with or without a season column; and a winter of city A reading 0, 1, 2
\* beside one reading of city B.
CsvTables ==
    { RangeIndex([i \in DOMAIN t |-> [city |-> t[i][1], timestamp |-> t[i][2],
                                      temperature |-> t[i][3], season |-> t[i][4]]])
      : t \in SeqsUpTo({"A", "B"} \X {101, 401} \X CsvTemps \X {"winter", "spring"},
                       MaxCsvRows) }
    \cup
    { RangeIndex([i \in DOMAIN t |-> [city |-> t[i][1], timestamp |-> t[i][2],
                                      temperature |-> t[i][3]]])
      : t \in SeqsUpTo({"A", "B"} \X {101, 401} \X CsvTemps, MaxCsvRows) }
    \cup
    { RangeIndex(<<[city |-> "B", timestamp |-> 102, temperature |-> 1, season |-> s],
                   [city |-> "A", timestamp |-> 103, temperature |-> 2, season |-> s],
                   [city |-> "A", timestamp |-> 101, temperature |-> 0, season |-> s],
                   [city |-> "A", timestamp |-> 102, temperature |-> 1, season |-> s]>>)
      : s \in {"winter", "spring"} }

\* Tables of up to MaxOrchRows readings of three cities, the i-th reading
\* i*i degrees, with or without a season column.
OrchTables ==
    { RangeIndex([i \in DOMAIN t |-> [city |-> t[i], timestamp |-> 100 + i,
                                      temperature |-> i * i, season |-> "winter"]])
      : t \in SeqsUpTo({"A", "B", "C"}, MaxOrchRows) }
    \cup
    { RangeIndex([i \in DOMAIN t |-> [city |-> t[i], timestamp |-> 100 + i,
                                      temperature |-> i * i]])
      : t \in SeqsUpTo({"A", "B", "C"}, MaxOrchRows) }

(* ------------------------------- state --------------------------------- *)
VARIABLES
    raw,          \* the table the run was given
    df,           \* app.py's df
    window,       \* roll_analysis's window argument
    lstsq,        \* what the least-squares solver does on a NaN matrix
    pc,           \* where app.py's script is
    err,          \* the exception that ended it
    call,         \* the arguments of the check_anomaly call
    anomaly_res   \* what check_anomaly returned

appVars == <<raw, df, window, lstsq, pc, err, call, anomaly_res>>

VARIABLES
    seq_pc,       \* where sequential_analysis is
    seq_cities,   \* its df["city"].unique()
    seq_i,        \* the position of its loop in seq_cities
    seq_res,      \* its res
    seq_ret,      \* what it returned
    par_pc,       \* where parallel_analysis is
    par_cities,   \* its cities
    futures,      \* the pool's work items, in submission order
    finished,     \* the work items in the order the workers finished them
    par_k,        \* the position of the result iterator in futures
    par_res,      \* its res
    par_ret,      \* what it returned
    par_err       \* the exception that left it

orchVars == <<seq_pc, seq_cities, seq_i, seq_res, seq_ret,
              par_pc, par_cities, futures, finished, par_k, par_res, par_ret, par_err>>

NoReturn == [returned |-> FALSE, result |-> <<>>, time |-> 0]

OrchIdle ==
    /\ seq_pc = "idle" /\ seq_cities = <<>> /\ seq_i = 0
    /\ seq_res = <<>> /\ seq_ret = NoReturn
    /\ par_pc = "idle" /\ par_cities = <<>> /\ futures = <<>> /\ finished = <<>>
    /\ par_k = 0 /\ par_res = <<>> /\ par_ret = NoReturn /\ par_err = ""

NoCall == [city |-> "", current_temp |-> 0, now_month |-> 0]
NoResult == [ok |-> FALSE, err |-> "", value |-> <<>>]

(* ------------------------------- app.py -------------------------------- *)
\* df = load_data(upload_file)
LoadData ==
    /\ pc = "start"
    /\ df' = load_data(df)
    /\ pc' = "loaded"
    /\ UNCHANGED <<raw, window, lstsq, err, call, anomaly_res>>
    /\ UNCHANGED orchVars

\* df = roll_analysis(df)
RollAnalysis ==
    /\ pc = "loaded"
    /\ df' = roll_analysis(df, window)
    /\ pc' = "rolled"
    /\ UNCHANGED <<raw, window, lstsq, err, call, anomaly_res>>
    /\ UNCHANGED orchVars

\* df = seasonal_analysis(df)
SeasonalAnalysis ==
    /\ pc = "rolled"
    /\ LET r == seasonal_analysis(df)
       IN  IF r.ok
           THEN df' = r.df /\ pc' = "seasoned" /\ err' = err
           ELSE df' = df /\ pc' = "raised" /\ err' = r.err
    /\ UNCHANGED <<raw, window, lstsq, call, anomaly_res>>
    /\ UNCHANGED orchVars

\* df = long_term_trend(df)
LongTermTrend ==
    /\ pc = "seasoned"
    /\ LET r == long_term_trend(df, lstsq)
       IN  IF r.ok
           THEN df' = r.df /\ pc' = "trended" /\ err' = err
           ELSE df' = df /\ pc' = "raised" /\ err' = r.err
    /\ UNCHANGED <<raw, window, lstsq, call, anomaly_res>>
    /\ UNCHANGED orchVars

\* city = st.selectbox(...); curr_temp = current_temperature_api(city, api_k):
\* the reading, or ValueError on a response that is not 200, which the
\* script's except ValueError turns into an error message.
CurrentTemperatureApi ==
    /\ pc = "trended"
    /\ \E city \in CitySet(df) :
         \/ \E temp \in LiveTemps :
              /\ call' = [city |-> city, current_temp |-> temp, now_month |-> 0]
              /\ pc' = "fetched"
              /\ err' = err
         \/ /\ call' = [city |-> city, current_temp |-> 0, now_month |-> 0]
            /\ pc' = "api_error"
            /\ err' = "ValueError"
    /\ UNCHANGED <<raw, df, window, lstsq, anomaly_res>>
    /\ UNCHANGED orchVars

\* anomaly_res = check_anomaly(city, curr_temp, df).  The script catches
\* ValueError alone: any other exception leaves it.
CheckAnomaly ==
    /\ pc = "fetched"
    /\ \E now_month \in NowMonths :
         LET r == check_anomaly(call.city, call.current_temp, df, now_month)
         IN  /\ call' = [call EXCEPT !.now_month = now_month]
             /\ anomaly_res' = r
             /\ pc' = (IF r.ok THEN "checked" ELSE "raised")
             /\ err' = (IF r.ok THEN err ELSE r.err)
    /\ UNCHANGED <<raw, df, window, lstsq>>
    /\ UNCHANGED orchVars

(* ------------------------- sequential_analysis ------------------------- *)
\* start = time.time(); res = {}; the loop's iterable.
SequentialStart ==
    /\ seq_pc = "idle"
    /\ seq_cities' = Unique(df)
    /\ seq_i' = 1
    /\ seq_res' = <<>>
    /\ seq_pc' = "loop"
    /\ UNCHANGED <<seq_ret, par_pc, par_cities, futures, finished, par_k, par_res,
                   par_ret, par_err>>
    /\ UNCHANGED appVars

\* res[city] = analyze_city(df, city); an exception leaves the function.
SequentialStep ==
    /\ seq_pc = "loop"
    /\ seq_i <= Len(seq_cities)
    /\ LET city == seq_cities[seq_i]
           r == analyze_city(df, city, lstsq)
       IN  IF r.ok
           THEN /\ seq_res' = (city :> r.df) @@ seq_res
                /\ seq_i' = seq_i + 1
                /\ seq_pc' = seq_pc
           ELSE /\ seq_pc' = "raised"
                /\ UNCHANGED <<seq_res, seq_i>>
    /\ UNCHANGED <<seq_cities, seq_ret, par_pc, par_cities, futures, finished, par_k,
                   par_res, par_ret, par_err>>
    /\ UNCHANGED appVars

\* exec_time = time.time() - start; return {"result": res, "time": exec_time}
SequentialReturn ==
    /\ seq_pc = "loop"
    /\ seq_i > Len(seq_cities)
    /\ \E exec_time \in 1..MaxTime :
         seq_ret' = [returned |-> TRUE, result |-> seq_res, time |-> exec_time]
    /\ seq_pc' = "returned"
    /\ UNCHANGED <<seq_cities, seq_i, seq_res, par_pc, par_cities, futures, finished,
                   par_k, par_res, par_ret, par_err>>
    /\ UNCHANGED appVars

(* -------------------------- parallel_analysis -------------------------- *)
\* city_wrapper with the city's key and the first city's analysis.
city_wrapper_FirstCity(args, lstsq_) ==
    LET r == analyze_city(args.df, Unique(args.df)[1], lstsq_)
    IN  [ok |-> r.ok, err |-> r.err, city |-> args.city, city_df |-> r.df]

\* What a worker hands back for one work item: the pair (city, city_df), or
\* the exception analyze_city raised.
city_wrapper(args, lstsq_) ==
    LET r == analyze_city(args.df, args.city, lstsq_)
    IN  [ok |-> r.ok, err |-> r.err, city |-> args.city, city_df |-> r.df]

NoOutcome == [ok |-> FALSE, err |-> "", city |-> "", city_df |-> <<>>]

Running == {k \in DOMAIN futures : futures[k].state = "RUNNING"}
AllFinished == \A k \in DOMAIN futures : futures[k].state = "FINISHED"

\* start, res = {}, cities = df["city"].unique(), and inside the with block
\* executor.map, which submits one work item per city, each with its own
\* copy of (df, city); the block then ends.
ParallelStart ==
    /\ par_pc = "idle"
    /\ seq_pc \in {"returned", "raised"}
    /\ par_cities' = Unique(df)
    /\ par_res' = <<>>
    /\ futures' = [k \in DOMAIN Unique(df) |->
                     [args |-> [df |-> df, city |-> Unique(df)[k]],
                      state |-> "PENDING", outcome |-> NoOutcome]]
    /\ par_pc' = "pool"
    /\ UNCHANGED <<seq_pc, seq_cities, seq_i, seq_res, seq_ret, finished, par_k,
                   par_ret, par_err>>
    /\ UNCHANGED appVars

\* A free worker process takes the oldest pending work item.
WorkerStart ==
    /\ par_pc \in {"pool", "collect"}
    /\ Cardinality(Running) < PoolSize
    /\ \E k \in DOMAIN futures :
         /\ futures[k].state = "PENDING"
         /\ \A j \in 1..(k - 1) : futures[j].state # "PENDING"
         /\ futures' = [futures EXCEPT ![k].state = "RUNNING"]
    /\ UNCHANGED <<seq_pc, seq_cities, seq_i, seq_res, seq_ret, par_pc, par_cities,
                   finished, par_k, par_res, par_ret, par_err>>
    /\ UNCHANGED appVars

\* A worker finishes its work item: the future holds the result or the
\* exception.
WorkerFinish ==
    /\ \E k \in Running :
         /\ futures' = [futures EXCEPT ![k].state = "FINISHED",
                                       ![k].outcome = city_wrapper(futures[k].args, lstsq)]
         /\ finished' = Append(finished, k)
    /\ UNCHANGED <<seq_pc, seq_cities, seq_i, seq_res, seq_ret, par_pc, par_cities,
                   par_k, par_res, par_ret, par_err>>
    /\ UNCHANGED appVars

\* ExecutorExit with shutdown(wait=False): the block ends at once.
ExecutorExit_NoWait ==
    /\ par_pc = "pool"
    /\ par_pc' = "collect"
    /\ par_k' = 1
    /\ UNCHANGED <<seq_pc, seq_cities, seq_i, seq_res, seq_ret, par_cities, futures,
                   finished, par_res, par_ret, par_err>>
    /\ UNCHANGED appVars

\* The end of the with block: ProcessPoolExecutor.__exit__ is
\* shutdown(wait=True), which returns when every work item has finished.
ExecutorExit ==
    /\ par_pc = "pool"
    /\ AllFinished
    /\ par_pc' = "collect"
    /\ par_k' = 1
    /\ UNCHANGED <<seq_pc, seq_cities, seq_i, seq_res, seq_ret, par_cities, futures,
                   finished, par_res, par_ret, par_err>>
    /\ UNCHANGED appVars

\* ParallelCollect that passes over a failed work item.
ParallelCollect_SkipFailed ==
    /\ par_pc = "collect"
    /\ par_k <= Len(futures)
    /\ futures[par_k].state = "FINISHED"
    /\ LET o == futures[par_k].outcome
       IN  par_res' = IF o.ok THEN (o.city :> o.city_df) @@ par_res ELSE par_res
    /\ par_k' = par_k + 1
    /\ UNCHANGED <<seq_pc, seq_cities, seq_i, seq_res, seq_ret, par_pc, par_cities,
                   futures, finished, par_ret, par_err>>
    /\ UNCHANGED appVars

\* for city, city_df in out: res[city] = city_df.  The iterator yields the
\* futures' results in submission order, waits for the one it is at, and
\* re-raises the exception of a failed one.
ParallelCollect ==
    /\ par_pc = "collect"
    /\ par_k <= Len(futures)
    /\ futures[par_k].state = "FINISHED"
    /\ LET o == futures[par_k].outcome
       IN  IF o.ok
           THEN /\ par_res' = (o.city :> o.city_df) @@ par_res
                /\ par_k' = par_k + 1
                /\ UNCHANGED <<par_pc, par_err>>
           ELSE /\ par_pc' = "raised"
                /\ par_err' = o.err
                /\ UNCHANGED <<par_res, par_k>>
    /\ UNCHANGED <<seq_pc, seq_cities, seq_i, seq_res, seq_ret, par_cities, futures,
                   finished, par_ret>>
    /\ UNCHANGED appVars

\* exec_time = time.time() - start; return {"result": res, "time": exec_time}
ParallelReturn ==
    /\ par_pc = "collect"
    /\ par_k > Len(futures)
    /\ \E exec_time \in 1..MaxTime :
         par_ret' = [returned |-> TRUE, result |-> par_res, time |-> exec_time]
    /\ par_pc' = "returned"
    /\ UNCHANGED <<seq_pc, seq_cities, seq_i, seq_res, seq_ret, par_cities, futures,
                   finished, par_k, par_res, par_err>>
    /\ UNCHANGED appVars

vars == <<appVars, orchVars>>

\* roll_analysis and seasonal_analysis applied to a table.
Init ==
    /\ \/ raw \in SmallTables /\ window \in 1..MaxWindow
       \/ raw \in SpikeTables /\ window \in {2, SpikeLen}
    /\ df = raw
    /\ lstsq = "nan"
    /\ pc = "loaded"
    /\ err = ""
    /\ call = NoCall
    /\ anomaly_res = NoResult
    /\ OrchIdle

Next == RollAnalysis \/ SeasonalAnalysis

Spec == Init /\ [][Next]_vars

\* app.py from the uploaded file to the live check.
InitLive ==
    /\ raw \in CsvTables
    /\ df = raw
    /\ window = DefaultWindow
    /\ lstsq \in LstsqOutcomes
    /\ pc = "start"
    /\ err = ""
    /\ call = NoCall
    /\ anomaly_res = NoResult
    /\ OrchIdle

NextLive ==
    \/ LoadData
    \/ RollAnalysis
    \/ SeasonalAnalysis
    \/ LongTermTrend
    \/ CurrentTemperatureApi
    \/ CheckAnomaly

SpecLive == InitLive /\ [][NextLive]_vars

\* sequential_analysis(df) and then parallel_analysis(df) on one table.
InitOrch ==
    /\ raw \in OrchTables
    /\ df = raw
    /\ window = DefaultWindow
    /\ lstsq \in LstsqOutcomes
    /\ pc = "loaded"
    /\ err = ""
    /\ call = NoCall
    /\ anomaly_res = NoResult
    /\ OrchIdle

NextOrch ==
    \/ SequentialStart
    \/ SequentialStep
    \/ SequentialReturn
    \/ ParallelStart
    \/ WorkerStart
    \/ WorkerFinish
    \/ ExecutorExit
    \/ ParallelCollect
    \/ ParallelReturn

SpecOrch == InitOrch /\ [][NextOrch]_vars

(* ------------------- what the properties are stated in ----------------- *)
\* Sums over the readings of the given table, taken by their positions.
RECURSIVE TempSum(_)
TempSum(S) ==
    IF S = {} THEN 0
    ELSE LET j == CHOOSE j \in S : TRUE
         IN  raw[j].temperature + TempSum(S \ {j})

RECURSIVE TempSumSq(_)
TempSumSq(S) ==
    IF S = {} THEN 0
    ELSE LET j == CHOOSE j \in S : TRUE
         IN  raw[j].temperature * raw[j].temperature + TempSumSq(S \ {j})

\* The place of reading i among its city's readings, in table order.
Ordinal(i) == Cardinality({j \in 1..i : raw[j].city = raw[i].city})

\* The positions of the W readings of i's city that end with reading i.
WindowOf(i, W) ==
    {j \in 1..i : raw[j].city = raw[i].city /\ Ordinal(j) > Ordinal(i) - W}

\* The positions of the readings of a (city, season).
GroupOf(city, season) ==
    {j \in DOMAIN raw : raw[j].city = city /\ raw[j].season = season}

\* n^2 * (n - 1) times (t - mean)^2 and times 4 * variance, for the readings
\* at the positions G and a temperature t.
ScaledDevSq(G, t) ==
    LET n == Cardinality(G)
    IN  (n * t - TempSum(G)) * (n * t - TempSum(G)) * (n - 1)
ScaledFourVar(G) ==
    LET n == Cardinality(G)
    IN  4 * n * (n * TempSumSq(G) - TempSum(G) * TempSum(G))

Rolled == pc \in {"rolled", "seasoned"}

(* -------------------------------- C4 ----------------------------------- *)
\* C4: after roll_analysis with window W, the k-th reading of a city (in
\* table order) has roll_mean_30 and roll_std_30 undefined when k < W, and
\* when k >= W its roll_mean_30 is the arithmetic mean of that city's
\* readings k-W+1..k, and of no other city's.
C4_RollingWindowPerCity ==
    Rolled =>
      \A i \in DOMAIN df :
        IF Ordinal(i) < window
        THEN ~df[i].roll_mean_30.def /\ ~df[i].roll_std_30.def
        ELSE /\ df[i].roll_mean_30.def
             /\ Cardinality(WindowOf(i, window)) = window
             /\ df[i].roll_mean_30.num * window
                  = TempSum(WindowOf(i, window)) * df[i].roll_mean_30.den

\* A window of two or more readings of one city that spans a reading of
\* another city whose temperature differs, beside a reading with too little
\* history.
C4_Witness ==
    /\ pc = "rolled"
    /\ window >= 2
    /\ \E i \in DOMAIN df :
         /\ Ordinal(i) >= window
         /\ \E j \in 1..i :
              /\ raw[j].city # raw[i].city
              /\ raw[j].temperature # raw[i].temperature
              /\ \E h \in WindowOf(i, window) : h < j
    /\ \E i \in DOMAIN df : Ordinal(i) < window

(* -------------------------------- C5 ----------------------------------- *)
\* C5: in every table roll_analysis and seasonal_analysis produce, the two
\* anomaly flags are true or false on every row; is_roll_anomaly is false
\* where roll_mean_30 or roll_std_30 is undefined, is_season_anomaly is
\* false where the row's (city, season) has fewer than 2 readings; and
\* nothing is raised.
C5_FlagsBooleanAndFalseOnUndefined ==
    /\ pc # "raised"
    /\ Rolled =>
         \A i \in DOMAIN df :
           /\ df[i].is_roll_anomaly \in BOOLEAN
           /\ (~df[i].roll_mean_30.def \/ ~df[i].roll_std_30.def)
                => df[i].is_roll_anomaly = FALSE
    /\ pc = "seasoned" =>
         \A i \in DOMAIN df :
           /\ df[i].is_season_anomaly \in BOOLEAN
           /\ Cardinality(GroupOf(raw[i].city, raw[i].season)) < 2
                => df[i].is_season_anomaly = FALSE

\* A table with a row without rolling statistics, a row alone in its
\* (city, season), and a row that is flagged.
C5_Witness ==
    /\ pc = "seasoned"
    /\ \E i \in DOMAIN df : ~df[i].roll_mean_30.def
    /\ \E i \in DOMAIN df : Cardinality(GroupOf(raw[i].city, raw[i].season)) = 1
    /\ \E i \in DOMAIN df : df[i].is_roll_anomaly
    /\ \E i \in DOMAIN df : df[i].is_season_anomaly

(* -------------------------------- C7 ----------------------------------- *)
\* C7: after seasonal_analysis every row of a (city, season) with at least
\* 2 readings carries that group's mean and sample standard deviation, and
\* is flagged exactly when its temperature is strictly above mean + 2*std
\* or strictly below mean - 2*std; a temperature on a bound is not flagged.
C7_SeasonStatsAndStrictFlag ==
    pc = "seasoned" =>
      \A i \in DOMAIN df :
        LET G == GroupOf(raw[i].city, raw[i].season)
            n == Cardinality(G)
            t == raw[i].temperature
        IN  n >= 2 =>
              /\ df[i].season_mean.def
              /\ df[i].season_mean.num * n = TempSum(G) * df[i].season_mean.den
              /\ df[i].season_std.def
              /\ df[i].season_std.num * n * (n - 1)
                   = (n * TempSumSq(G) - TempSum(G) * TempSum(G)) * df[i].season_std.den
              /\ \A j \in G : /\ df[j].season_mean = df[i].season_mean
                              /\ df[j].season_std = df[i].season_std
              /\ df[i].is_season_anomaly <=> (ScaledDevSq(G, t) > ScaledFourVar(G))

\* A group whose deviation is not 0, with a reading exactly on mean + 2*std.
C7_Witness ==
    /\ pc = "seasoned"
    /\ \E i \in DOMAIN df :
         LET G == GroupOf(raw[i].city, raw[i].season)
         IN  /\ Cardinality(G) >= 2
             /\ ScaledFourVar(G) > 0
             /\ ScaledDevSq(G, raw[i].temperature) = ScaledFourVar(G)
             /\ ~df[i].is_season_anomaly

(* -------------------------------- C6 ----------------------------------- *)
PastSeasonal == pc \notin {"start", "loaded", "rolled"}

LiveGroup == GroupOf(call.city, get_season(call.now_month))

\* C8: when the (city, current season) has a defined mean and deviation,
\* check_anomaly answers normal exactly when
\* mean - 2*std <= temperature <= mean + 2*std, anomaly otherwise, and its
\* record carries the city, the current season and the temperature given.
C8_InclusiveLimits ==
    (pc = "checked" /\ Cardinality(LiveGroup) >= 2) =>
      /\ anomaly_res.ok
      /\ anomaly_res.value.is_anomaly \in {"normal", "anomaly"}
      /\ anomaly_res.value.is_anomaly = "normal"
           <=> ScaledDevSq(LiveGroup, call.current_temp) <= ScaledFourVar(LiveGroup)
      /\ anomaly_res.value.city = call.city
      /\ anomaly_res.value.temperature = call.current_temp
      /\ anomaly_res.value.season \in AllSeasons
      /\ call.now_month \in {3, 4, 5} <=> anomaly_res.value.season = "spring"
      /\ call.now_month \in {6, 7, 8} <=> anomaly_res.value.season = "summer"
      /\ call.now_month \in {9, 10, 11} <=> anomaly_res.value.season = "autumn"
      /\ call.now_month \in {12, 1, 2} <=> anomaly_res.value.season = "winter"

\* A reading exactly on mean + 2*std of a group whose deviation is not 0.
C8_Witness ==
    /\ pc = "checked"
    /\ Cardinality(LiveGroup) >= 2
    /\ ScaledFourVar(LiveGroup) > 0
    /\ ScaledDevSq(LiveGroup, call.current_temp) = ScaledFourVar(LiveGroup)
    /\ anomaly_res.value.is_anomaly = "normal"

(* -------------------------------- C9 ----------------------------------- *)
Called == call.now_month # 0

\* C9: when the table holds no reading of the (city, current season),
\* check_anomaly raises a lookup error and returns no record, which is not
\* what an anomaly looks like: that is a returned record.
C9_NoRowRaisesLookupError ==
    Called =>
      /\ (LiveGroup = {}) =>
           /\ pc = "raised" /\ err = "IndexError"
           /\ ~anomaly_res.ok /\ anomaly_res.err = "IndexError"
           /\ anomaly_res.value = <<>>
      /\ (LiveGroup # {}) =>
           /\ pc = "checked" /\ anomaly_res.ok

\* The city has readings, none of them in the current season.
C9_Witness ==
    /\ Called
    /\ LiveGroup = {}
    /\ pc = "raised"
    /\ \E i \in DOMAIN raw : raw[i].city = call.city

(* -------------------------------- C10 ---------------------------------- *)
\* C10 as claimed: when the (city, current season) has exactly one reading,
\* so that its deviation is undefined, check_anomaly does not raise and
\* answers normal for every temperature, as is_season_anomaly is false for
\* that group.
C10_SingleReadingIsNormal ==
    (Called /\ Cardinality(LiveGroup) = 1) =>
      /\ pc = "checked"
      /\ anomaly_res.ok
      /\ anomaly_res.value.is_anomaly = "normal"
      /\ \A i \in LiveGroup : \A j \in DOMAIN df :
           (df[j].city = raw[i].city /\ df[j].season = raw[i].season)
             => ~df[j].is_season_anomaly

(* -------------------------------- C1 ----------------------------------- *)
\* The per-city pipeline succeeds on every city of the table.
PipelineSucceeds == \A c \in CitySet(df) : analyze_city(df, c, lstsq).ok

\* A per-city table holds the readings of that city, all of them, in table
\* order.
ReadingsOf(frame) ==
    [i \in DOMAIN frame |-> <<frame[i].city, frame[i].timestamp, frame[i].temperature>>]
IsTableOf(frame, c) ==
    ReadingsOf(frame) = ReadingsOf(FilterCity(df, c))

\* C1: on a table on which the per-city pipeline succeeds, sequential_analysis
\* and parallel_analysis both return, their result mappings have the same
\* keys, the distinct cities of the table, and under each key the same
\* enriched table of that city; the elapsed time is all that may differ.
C1_SequentialEqualsParallel ==
    /\ (PipelineSucceeds /\ seq_pc \notin {"idle", "loop"}) => seq_pc = "returned"
    /\ (PipelineSucceeds /\ par_pc \notin {"idle", "pool", "collect"})
         => par_pc = "returned"
    /\ (seq_pc = "returned" /\ par_pc = "returned") =>
         /\ seq_ret.returned /\ par_ret.returned
         /\ DOMAIN seq_ret.result = CitySet(df)
         /\ DOMAIN par_ret.result = CitySet(df)
         /\ \A c \in CitySet(df) :
              /\ seq_ret.result[c] = par_ret.result[c]
              /\ IsTableOf(par_ret.result[c], c)

\* Both have returned for three cities, the workers having finished in
\* another order than the work was submitted in, with different times.
C1_Witness ==
    /\ seq_pc = "returned" /\ par_pc = "returned"
    /\ Cardinality(CitySet(df)) = 3
    /\ finished # <<1, 2, 3>>
    /\ seq_ret.time # par_ret.time
    /\ seq_ret.result = par_ret.result

(* -------------------------------- C2 ----------------------------------- *)
Failed == {k \in DOMAIN futures : futures[k].state = "FINISHED" /\ ~futures[k].outcome.ok}
Succeeded == {k \in DOMAIN futures : futures[k].state = "FINISHED" /\ futures[k].outcome.ok}

\* C2: when the per-city pipeline raises in a worker, parallel_analysis
\* returns nothing: it ends only by raising that exception to its caller,
\* and the results of the cities that did complete are not handed over.
C2_WorkerFailureAborts ==
    /\ Failed # {} =>
         /\ par_pc # "returned"
         /\ par_ret = NoReturn
         /\ par_pc \in {"pool", "collect", "raised"}
    /\ par_pc = "raised" =>
         /\ Failed # {}
         /\ \E k \in Failed : par_err = futures[k].outcome.err
         /\ par_ret = NoReturn
    /\ (par_pc = "collect" /\ par_k > Len(futures)) => Failed = {}

\* One city failed in its worker, another completed and was already
\* collected, and the call has raised.
C2_Witness ==
    /\ par_pc = "raised"
    /\ Failed # {}
    /\ Succeeded # {}
    /\ par_res # <<>>
    /\ par_ret = NoReturn

(* -------------------------------- C3 ----------------------------------- *)
\* C3: under every interleaving of the workers, no per-city result is in
\* the result mapping, and parallel_analysis has not returned, before every
\* submitted work item has finished.
C3_MergeAfterBarrier ==
    /\ par_res # <<>> => AllFinished
    /\ par_pc \in {"collect", "returned", "raised"} => AllFinished
    /\ par_ret.returned => AllFinished

\* Three work items on two workers, finished out of submission order, and
\* their results merged.
C3_Witness ==
    /\ Len(futures) = 3
    /\ finished \in {<<2, 1, 3>>, <<2, 3, 1>>, <<1, 3, 2>>}
    /\ DOMAIN par_res = CitySet(df)
    /\ par_pc = "collect"

====
